---- MODULE Spec2Model ----
(***************************************************************************)
(* A model of hollanjs/DiceEngine: the Die value object (src/src/Die.py),  *)
(* the two Dice containers (src/src/Dice.py, the older module with the     *)
(* remove_* and index-based freeze methods, and src/src/DiceEngine/dice.py,*)
(* the packaged one) and RollManager (src/src/DiceEngine/roll_manager.py). *)
(*                                                                         *)
(* Python objects live in a heap: a Die is a heap cell, addressed by its   *)
(* index; lists of dice (the live pool, each history snapshot) are         *)
(* sequences of addresses, so that copy.deepcopy (fresh cells) and a plain *)
(* list copy (shared cells) are different things in the model.             *)
(***************************************************************************)
EXTENDS Integers, Sequences, FiniteSets, TLC

VARIABLES
    impl,          \* which container class: "legacy" (Dice.py) or "engine" (DiceEngine/dice.py)
    die_type,      \* Dice.die_type: the die class
    count,         \* Dice.count
    dice,          \* Dice.dice: list of references to Die objects
    roll_history,  \* Dice.roll_history: list of lists of references
    heap,          \* the Die objects: fields face_count, rolled, is_frozen, kind
    ret,           \* the last call: its name, its outcome and the integer it returned
    ctor,          \* how the container was built, and from what
    nrolls,        \* number of completed Dice.roll() calls (history variable)
    ncalls,        \* number of calls made on the container so far (history variable)
    toggled        \* the Die objects whose is_frozen the last call changed (history variable)

vars == <<impl, die_type, count, dice, roll_history, heap, ret, ctor, nrolls, ncalls, toggled>>

----------------------------------------------------------------------------
(* Bounds of the exploration *)

\* largest pool the callers build or grow
MaxDice == 2
\* number of calls explored after the construction
MaxCalls == 3
\* number of Dice.roll() calls explored
MaxRolls == 2
\* face_count of the die class the caller hands to the container
Faces == 2

----------------------------------------------------------------------------
(* Die: src/src/Die.py *)

\* the die classes the caller uses: one concrete subclass of Die
Kinds == {"CallerDie"}

\* the face_count default of a die class
FaceCountOf(kind) == Faces

\* a die class whose rolled field defaults to 1
NewDieRolledOne(kind) ==
    [kind |-> kind, face_count |-> FaceCountOf(kind), rolled |-> 1, is_frozen |-> FALSE]

\* Die(): the dataclass defaults, rolled = 0 and is_frozen = False
NewDie(kind) ==
    [kind |-> kind, face_count |-> FaceCountOf(kind), rolled |-> 0, is_frozen |-> FALSE]

\* a toggle_freeze that sets the flag instead of flipping it
ToggleFreezeSets(d) == [d EXCEPT !.is_frozen = TRUE]

\* Die.toggle_freeze
ToggleFreeze(d) == [d EXCEPT !.is_frozen = ~d.is_frozen]

\* a roll that ignores the frozen flag
DieRollAlways(d, drawn) == [d EXCEPT !.rolled = drawn]

\* a roll that resets a frozen die
DieRollFrozenResets(d, drawn) ==
    IF ~d.is_frozen THEN [d EXCEPT !.rolled = drawn] ELSE [d EXCEPT !.rolled = 0]

\* Die.roll, with random.randint(1, face_count) resolved to drawn
DieRoll(d, drawn) == IF ~d.is_frozen THEN [d EXCEPT !.rolled = drawn] ELSE d

\* a draw with randint(0, face_count)
RandIntFromZero(d) == 0..d.face_count

\* the values random.randint(1, face_count) can return
RandInt(d) == 1..d.face_count

\* Die.__post_init__: name is 'd' followed by face_count
DieName(d) == "d" \o ToString(d.face_count)

\* Die.__add__ / Die.__radd__ against an integer
DieAddInt(d, other) ==
    IF other = 0 THEN d.rolled ELSE d.rolled + other

\* the fields the generated __eq__, __lt__, ... of a concrete die class compare,
\* in field order: the class redeclares face_count without compare=False, so
\* face_count is compared, before rolled; name and is_frozen are not
CompareKey(d) == <<d.face_count, d.rolled>>

\* Python's order on tuples of two integers
TupleLt(x, y) == x[1] < y[1] \/ (x[1] = y[1] /\ x[2] < y[2])

\* the outcome of an operator: the value it returned, or the exception raised
Num(v) == [status |-> "ok", value |-> v]

Err(e) == [status |-> e, value |-> 0]

\* True and False as the integers they are
Bool(b) == Num(IF b THEN 1 ELSE 0)

\* a == b, a < b, ... between two Die objects: the generated methods give
\* NotImplemented unless both are of the same class, and then == is False and
\* the orderings raise TypeError
DieCompare(op, a, b) ==
    IF a.kind # b.kind
    THEN IF op = "==" THEN Bool(FALSE) ELSE Err("TypeError")
    ELSE CASE op = "==" -> Bool(CompareKey(a) = CompareKey(b))
           [] op = "<"  -> Bool(TupleLt(CompareKey(a), CompareKey(b)))
           [] op = "<=" -> Bool(~TupleLt(CompareKey(b), CompareKey(a)))
           [] op = ">"  -> Bool(TupleLt(CompareKey(b), CompareKey(a)))
           [] op = ">=" -> Bool(~TupleLt(CompareKey(a), CompareKey(b)))

\* the other operand of an arithmetic operator, as what the methods look at:
\* its class (a die class, "int", "float" or "str"), its number n (rolled for
\* a Die, the value of an int, twice the value of a float) and, for a Die,
\* its face_count
IntOperand(n) == [kind |-> "int", n |-> n, faces |-> 0]

FloatOperand(n) == [kind |-> "float", n |-> n, faces |-> 0]

StrOperand == [kind |-> "str", n |-> 0, faces |-> 0]

DieOperand(d) == [kind |-> d.kind, n |-> d.rolled, faces |-> d.face_count]

\* other == 0: true of the int 0 and of the float 0.0, false of every Die
\* (its __eq__ gives NotImplemented against an int) and of a str
EqZero(other) == other.kind \in {"int", "float"} /\ other.n = 0

\* isinstance(other, self.__class__), the die classes being siblings
SameClass(d, other) == other.kind = d.kind

\* isinstance(other, int)
IsInt(other) == other.kind = "int"

\* a floor division that rounds towards zero
TruncDiv(x, y) ==
    IF (x >= 0) = (y > 0) THEN (IF x >= 0 THEN x \div y ELSE (-x) \div (-y))
    ELSE -(IF x >= 0 THEN x \div (-y) ELSE (-x) \div y)

\* x // y on Python integers, y # 0: the quotient rounded down
FloorDiv(x, y) == IF y > 0 THEN x \div y ELSE (-x) \div (-y)

\* x // y, with the ZeroDivisionError Python raises when y is 0
PyFloorDiv(x, y) == IF y = 0 THEN Err("ZeroDivisionError") ELSE Num(FloorDiv(x, y))

\* an __add__ that gives 0 when other == 0, as __mul__ does
DieAddZeroGivesZero(d, other) ==
    IF EqZero(other) THEN Num(0)
    ELSE IF SameClass(d, other) THEN Num(d.rolled + other.n)
    ELSE IF IsInt(other) THEN Num(d.rolled + other.n)
    ELSE Err("ValueError")

\* Die.__add__
DieAdd(d, other) ==
    IF EqZero(other) THEN Num(d.rolled)
    ELSE IF SameClass(d, other) THEN Num(d.rolled + other.n)
    ELSE IF IsInt(other) THEN Num(d.rolled + other.n)
    ELSE Err("ValueError")

\* Die.__radd__
DieRAdd(d, other) == DieAdd(d, other)

\* Die.__sub__
DieSub(d, other) ==
    IF EqZero(other) THEN Num(d.rolled)
    ELSE IF SameClass(d, other) THEN Num(d.rolled - other.n)
    ELSE IF IsInt(other) THEN Num(d.rolled - other.n)
    ELSE Err("ValueError")

\* Die.__rsub__
DieRSub(d, other) ==
    IF EqZero(other) THEN Num(d.rolled)
    ELSE IF SameClass(d, other) THEN Num(other.n - d.rolled)
    ELSE IF IsInt(other) THEN Num(other.n - d.rolled)
    ELSE Err("ValueError")

\* Die.__mul__
DieMul(d, other) ==
    IF EqZero(other) THEN Num(0)
    ELSE IF SameClass(d, other) THEN Num(d.rolled * other.n)
    ELSE IF IsInt(other) THEN Num(d.rolled * other.n)
    ELSE Err("ValueError")

\* Die.__rmul__
DieRMul(d, other) == DieMul(d, other)

\* Die.__truediv__
DieTrueDiv(d, other) ==
    IF EqZero(other) THEN Err("ZeroDivisionError")
    ELSE IF SameClass(d, other) THEN PyFloorDiv(d.rolled, other.n)
    ELSE IF IsInt(other) THEN PyFloorDiv(d.rolled, other.n)
    ELSE Err("ValueError")

\* Die.__rtruediv__
DieRTrueDiv(d, other) ==
    IF d.rolled = 0 THEN Err("ZeroDivisionError")
    ELSE IF SameClass(d, other) THEN PyFloorDiv(other.n, d.rolled)
    ELSE IF IsInt(other) THEN PyFloorDiv(other.n, d.rolled)
    ELSE Err("ValueError")

\* die <op> other: Python calls the method of the left operand, a Die
DieLeft(op, d, other) ==
    CASE op = "+" -> DieAdd(d, other)
      [] op = "-" -> DieSub(d, other)
      [] op = "*" -> DieMul(d, other)
      [] op = "/" -> DieTrueDiv(d, other)

\* other <op> die, other being no Die: int, float and str give NotImplemented
\* and Python calls the reflected method of the Die
DieRight(op, d, other) ==
    CASE op = "+" -> DieRAdd(d, other)
      [] op = "-" -> DieRSub(d, other)
      [] op = "*" -> DieRMul(d, other)
      [] op = "/" -> DieRTrueDiv(d, other)

\* sum(items), the items being Die objects and integers: acc + item for each,
\* which is item.__radd__(acc) when item is a Die
RECURSIVE SumItems(_, _)
SumItems(items, acc) ==
    IF items = <<>> THEN Num(acc)
    ELSE IF IsInt(Head(items)) THEN SumItems(Tail(items), acc + Head(items).n)
    ELSE LET r == DieRAdd(Head(items), IntOperand(acc))
         IN  IF r.status = "ok" THEN SumItems(Tail(items), r.value) ELSE r

----------------------------------------------------------------------------
(* Heap and list helpers *)

\* the rolled values of a list of dice, in list order
Values(h, ds) == [i \in 1..Len(ds) |-> h[ds[i]].rolled]

\* sum(list_of_dice): 0 + d1 + d2 + ..., through Die.__radd__
RECURSIVE SumDice(_, _, _)
SumDice(h, ds, acc) ==
    IF ds = <<>> THEN acc
    ELSE SumDice(h, Tail(ds), DieAddInt(h[Head(ds)], acc))

\* plain integer sum and extremes of a sequence of integers
RECURSIVE SeqSum(_)
SeqSum(s) == IF s = <<>> THEN 0 ELSE Head(s) + SeqSum(Tail(s))

SeqMin(s) == CHOOSE v \in {s[i] : i \in 1..Len(s)} : \A j \in 1..Len(s) : v <= s[j]

SeqMax(s) == CHOOSE v \in {s[i] : i \in 1..Len(s)} : \A j \in 1..Len(s) : v >= s[j]

\* s without its element at position k
RemoveAt(s, k) == [i \in 1..(Len(s) - 1) |-> IF i < k THEN s[i] ELSE s[i + 1]]

\* the cell of an object that was reclaimed once nothing referred to it
Freed == [kind |-> "freed", face_count |-> 0, rolled |-> 0, is_frozen |-> FALSE]

\* object creation: the objects recs are placed in reclaimed cells first, then
\* in new cells; gives the heap and the list of the new references
RECURSIVE Alloc(_, _, _)
Alloc(h, recs, refs) ==
    IF recs = <<>> THEN [heap |-> h, list |-> refs]
    ELSE IF \E i \in 1..Len(h) : h[i] = Freed
         THEN LET c == CHOOSE i \in 1..Len(h) :
                           h[i] = Freed /\ \A j \in 1..(i - 1) : h[j] # Freed
              IN  Alloc([h EXCEPT ![c] = Head(recs)], Tail(recs), Append(refs, c))
         ELSE Alloc(Append(h, Head(recs)), Tail(recs), Append(refs, Len(h) + 1))

\* a list copy that shares the Die objects
ShallowCopy(h, ds) == [heap |-> h, list |-> ds]

\* copy.deepcopy(list_of_dice): a new list of new Die objects with the same fields
DeepCopy(h, ds) == Alloc(h, [i \in 1..Len(ds) |-> h[ds[i]]], <<>>)

----------------------------------------------------------------------------
(* Dice: src/src/DiceEngine/dice.py and src/src/Dice.py.  An operation is   *)
(* an operator from the object's fields (a record d with count, dice,      *)
(* roll_history and the heap) to the fields after the call.                *)

\* the fields of the container in the current state
Cur == [count |-> count, dice |-> dice, roll_history |-> roll_history, heap |-> heap]

\* Dice.__post_init__ after the dataclass __init__ has stored die_type and count
PostInit(h, kind, n) ==
    LET made == Alloc(h, [i \in 1..n |-> NewDie(kind)], <<>>)
        cp   == DeepCopy(made.heap, made.list)
    IN  [count |-> n, dice |-> made.list, roll_history |-> <<cp.list>>, heap |-> cp.heap]

\* a from_dice_list that appends its snapshot to the one __post_init__ made
FromDiceListKeepsSnapshot(h, dice_list) ==
    LET inst == PostInit(h, h[dice_list[1]].kind, 0)
        cp   == DeepCopy(inst.heap, dice_list)
    IN  [inst EXCEPT !.dice = dice_list,
                     !.roll_history = inst.roll_history \o <<cp.list>>,
                     !.heap = cp.heap]

\* Dice.from_dice_list on a non-empty list: cls(die_type, count=0), then
\* dice and roll_history are replaced; count is left as __init__ set it
FromDiceList(h, dice_list) ==
    LET inst == PostInit(h, h[dice_list[1]].kind, 0)
        cp   == DeepCopy(inst.heap, dice_list)
    IN  [inst EXCEPT !.dice = dice_list, !.roll_history = <<cp.list>>, !.heap = cp.heap]

\* Dice.current_roll
CurrentRollOf(d) == d.roll_history[Len(d.roll_history)]

\* a previous_roll that reads the first snapshot instead of the one before last
PreviousRollIsFirst(d) ==
    IF Len(d.roll_history) > 1
    THEN [status |-> "ok", list |-> d.roll_history[1]]
    ELSE [status |-> "IndexError", list |-> <<>>]

\* Dice.previous_roll: the list, or the IndexError it raises
PreviousRollOf(d) ==
    IF Len(d.roll_history) > 1
    THEN [status |-> "ok", list |-> d.roll_history[Len(d.roll_history) - 1]]
    ELSE [status |-> "IndexError", list |-> <<>>]

\* Dice.current_total
CurrentTotalOf(d) == SumDice(d.heap, CurrentRollOf(d), 0)

\* Dice.previous_total: the sum, or the IndexError of previous_roll
PreviousTotalOf(d) ==
    IF PreviousRollOf(d).status = "ok"
    THEN [status |-> "ok", value |-> SumDice(d.heap, PreviousRollOf(d).list, 0)]
    ELSE [status |-> PreviousRollOf(d).status, value |-> 0]

\* ', '.join(str(d.rolled) for d in dice)
RECURSIVE JoinRolled(_, _)
JoinRolled(h, ds) ==
    IF ds = <<>> THEN ""
    ELSE IF Len(ds) = 1 THEN ToString(h[ds[1]].rolled)
    ELSE ToString(h[ds[1]].rolled) \o ", " \o JoinRolled(h, Tail(ds))

\* Dice.pprint_str(dice): the f-string reads len(dice), dice[0].name and the
\* rolled values; dice[0] raises IndexError on an empty list
PprintStr(h, ds) ==
    IF ds = <<>> THEN [status |-> "IndexError", value |-> ""]
    ELSE [status |-> "ok",
          value  |-> ToString(Len(ds)) \o DieName(h[ds[1]]) \o ", [" \o JoinRolled(h, ds) \o "]"]

\* Dice.__str__
DiceStr(d) == PprintStr(d.heap, CurrentRollOf(d))

\* the draws of one Dice.roll(): one randint result per die of the pool
DrawsOf(d) ==
    {f \in [1..Len(d.dice) -> UNION {RandInt(d.heap[d.dice[i]]) : i \in 1..Len(d.dice)}] :
        \A i \in 1..Len(d.dice) : f[i] \in RandInt(d.heap[d.dice[i]])}

\* the loop of Dice.roll: die.roll() on every die of the pool, from the i-th on
RECURSIVE RollFrom(_, _, _, _)
RollFrom(h, ds, draws, i) ==
    IF i > Len(ds) THEN h
    ELSE RollFrom([h EXCEPT ![ds[i]] = DieRoll(@, draws[i])], ds, draws, i + 1)

RollAll(h, ds, draws) == RollFrom(h, ds, draws, 1)

\* a roll that takes the snapshot before the dice are rolled
RollCopyFirst(d, draws) ==
    LET cp == DeepCopy(d.heap, d.dice)
    IN  [d EXCEPT !.heap = RollAll(cp.heap, d.dice, draws),
                  !.roll_history = Append(d.roll_history, cp.list)]

\* a roll that overwrites the current snapshot instead of appending one
RollOverwrite(d, draws) ==
    LET cp == DeepCopy(RollAll(d.heap, d.dice, draws), d.dice)
    IN  [d EXCEPT !.heap = cp.heap,
                  !.roll_history = [d.roll_history EXCEPT ![Len(d.roll_history)] = cp.list]]

\* a roll that records no snapshot
RollKeepsHistory(d, draws) == [d EXCEPT !.heap = RollAll(d.heap, d.dice, draws)]

\* Dice.roll
Roll(d, draws) ==
    LET cp == DeepCopy(RollAll(d.heap, d.dice, draws), d.dice)
    IN  [d EXCEPT !.heap = cp.heap, !.roll_history = Append(d.roll_history, cp.list)]

\* an add_dice that counts one die whatever the number added
AddDiceCountOnce(d, kind, number) ==
    LET made == Alloc(d.heap, [i \in 1..number |-> NewDie(kind)], <<>>)
    IN  [d EXCEPT !.heap = made.heap,
                  !.dice = d.dice \o made.list,
                  !.count = d.count + (IF number > 0 THEN 1 ELSE 0)]

\* Dice.add_dice
AddDice(d, kind, number) ==
    LET made == Alloc(d.heap, [i \in 1..number |-> NewDie(kind)], <<>>)
    IN  [d EXCEPT !.heap = made.heap,
                  !.dice = d.dice \o made.list,
                  !.count = d.count + number]

\* min(self.dice, key=rolled): the position of the first die with the least value
LowestPos(h, ds) ==
    CHOOSE k \in 1..Len(ds) :
        /\ \A j \in 1..Len(ds) : h[ds[k]].rolled <= h[ds[j]].rolled
        /\ \A j \in 1..(k - 1) : h[ds[j]].rolled > h[ds[k]].rolled

\* max(self.dice, key=rolled): the position of the first die with the greatest value
HighestPos(h, ds) ==
    CHOOSE k \in 1..Len(ds) :
        /\ \A j \in 1..Len(ds) : h[ds[k]].rolled >= h[ds[j]].rolled
        /\ \A j \in 1..(k - 1) : h[ds[j]].rolled < h[ds[k]].rolled

\* Die.__eq__ of the dataclass: same class and same compared fields
DieEq(a, b) == a.kind = b.kind /\ CompareKey(a) = CompareKey(b)

\* a removal of the last element that is x or equals x
ListRemoveLastPos(h, ds, x) ==
    CHOOSE k \in 1..Len(ds) :
        /\ (ds[k] = x \/ DieEq(h[ds[k]], h[x]))
        /\ \A j \in (k + 1)..Len(ds) : ~(ds[j] = x \/ DieEq(h[ds[j]], h[x]))

\* list.remove(x): the position of the first element that is x or equals x
ListRemovePos(h, ds, x) ==
    CHOOSE k \in 1..Len(ds) :
        /\ (ds[k] = x \/ DieEq(h[ds[k]], h[x]))
        /\ \A j \in 1..(k - 1) : ~(ds[j] = x \/ DieEq(h[ds[j]], h[x]))

\* self.dice.remove(x) and the end of the method: the die that left the list
\* has no reference left and is reclaimed
RemoveDie(d, x) ==
    LET k == ListRemovePos(d.heap, d.dice, x)
    IN  [d EXCEPT !.dice = RemoveAt(d.dice, k), !.heap[d.dice[k]] = Freed]

\* a call that returned v, leaving the fields d
Ok(d, v) == [d |-> d, status |-> "ok", value |-> v]

\* a call that raised err, leaving the fields d
Raise(d, err) == [d |-> d, status |-> err, value |-> 0]

\* Dice.remove_lowest_roll (Dice.py)
RemoveLowestRoll(d) ==
    IF d.dice = <<>> THEN Raise(d, "ValueError")
    ELSE Ok([RemoveDie(d, d.dice[LowestPos(d.heap, d.dice)]) EXCEPT !.count = d.count - 1], 0)

\* Dice.remove_highest_roll (Dice.py)
RemoveHighestRoll(d) ==
    IF d.dice = <<>> THEN Raise(d, "ValueError")
    ELSE Ok([RemoveDie(d, d.dice[HighestPos(d.heap, d.dice)]) EXCEPT !.count = d.count - 1], 0)

\* self.dice[ind]: the list position a Python index denotes, 0 when out of range
PyIndex(ds, ind) ==
    IF ind >= 0 /\ ind < Len(ds) THEN ind + 1
    ELSE IF ind < 0 /\ -ind <= Len(ds) THEN Len(ds) + ind + 1
    ELSE 0

\* a freeze_die that also clears the value of the die it freezes
FreezeDieResets(d, ind) ==
    IF PyIndex(d.dice, ind) = 0 THEN Raise(d, "IndexError")
    ELSE IF ~d.heap[d.dice[PyIndex(d.dice, ind)]].is_frozen
         THEN Ok([d EXCEPT !.heap[d.dice[PyIndex(d.dice, ind)]] =
                               [ToggleFreeze(@) EXCEPT !.rolled = 0]], 0)
         ELSE Ok(d, 0)

\* Dice.freeze_die (Dice.py)
FreezeDie(d, ind) ==
    IF PyIndex(d.dice, ind) = 0 THEN Raise(d, "IndexError")
    ELSE IF ~d.heap[d.dice[PyIndex(d.dice, ind)]].is_frozen
         THEN Ok([d EXCEPT !.heap[d.dice[PyIndex(d.dice, ind)]] = ToggleFreeze(@)], 0)
         ELSE Ok(d, 0)

\* Dice.unfreeze_die (Dice.py)
UnfreezeDie(d, ind) ==
    IF PyIndex(d.dice, ind) = 0 THEN Raise(d, "IndexError")
    ELSE IF d.heap[d.dice[PyIndex(d.dice, ind)]].is_frozen
         THEN Ok([d EXCEPT !.heap[d.dice[PyIndex(d.dice, ind)]] = ToggleFreeze(@)], 0)
         ELSE Ok(d, 0)

\* range(n) of Python as a list
Range(n) == [i \in 1..(IF n > 0 THEN n ELSE 0) |-> i - 1]

\* Dice.freeze_dice (Dice.py): freeze_die on each index in turn; an IndexError
\* ends the loop and keeps what the earlier iterations did
RECURSIVE FreezeDice(_, _)
FreezeDice(d, indexes) ==
    IF indexes = <<>> THEN Ok(d, 0)
    ELSE LET r == FreezeDie(d, Head(indexes))
         IN  IF r.status = "ok" THEN FreezeDice(r.d, Tail(indexes)) ELSE r

\* Dice.unfreeze_dice (Dice.py)
RECURSIVE UnfreezeDice(_, _)
UnfreezeDice(d, indexes) ==
    IF indexes = <<>> THEN Ok(d, 0)
    ELSE LET r == UnfreezeDie(d, Head(indexes))
         IN  IF r.status = "ok" THEN UnfreezeDice(r.d, Tail(indexes)) ELSE r

\* Dice.freeze_all_dice (Dice.py): the indexes are range(self.count)
FreezeAllDice(d) == FreezeDice(d, Range(d.count))

\* Dice.unfreeze_all_dice (Dice.py)
UnfreezeAllDice(d) == UnfreezeDice(d, Range(d.count))

\* the attributes an instance of each container class has
DiceAttrs(cls) ==
    {"die_type", "count", "dice", "roll_history", "current_roll", "previous_roll",
     "current_total", "previous_total", "roll", "add_dice", "from_dice_list", "pprint_str"}
    \cup (IF cls = "legacy"
          THEN {"remove_lowest_roll", "remove_highest_roll", "freeze_die", "unfreeze_die",
                "freeze_dice", "unfreeze_dice", "freeze_all_dice", "unfreeze_all_dice",
                "pprint_dice", "pprint_roll_history"}
          ELSE {"freeze", "unfreeze"})

----------------------------------------------------------------------------
(* RollManager: src/src/DiceEngine/roll_manager.py.  self._dice is an       *)
(* instance of the Dice of DiceEngine/dice.py.                             *)

\* RollManager.roll
MgrRoll(d, draws) ==
    LET d1 == Roll(d, draws) IN Ok(d1, CurrentTotalOf(d1))

\* RollManager.roll_with_advantage; draws are those of the pool with the added die
RollWithAdvantage(d, kind, draws) ==
    IF "Die_type" \notin DiceAttrs("engine") THEN Raise(d, "AttributeError")
    ELSE LET d1 == AddDice(d, kind, 1)
             d2 == Roll(d1, draws)
         IN  IF "remove_lowest_roll" \notin DiceAttrs("engine")
             THEN Raise(d2, "AttributeError")
             ELSE LET r == RemoveLowestRoll(d2)
                  IN  IF r.status = "ok" THEN Ok(r.d, CurrentTotalOf(r.d)) ELSE r

\* RollManager.roll_with_disadvantage
RollWithDisadvantage(d, kind, draws) ==
    IF "Die_type" \notin DiceAttrs("engine") THEN Raise(d, "AttributeError")
    ELSE LET d1 == AddDice(d, kind, 1)
             d2 == Roll(d1, draws)
         IN  IF "remove_highest_roll" \notin DiceAttrs("engine")
             THEN Raise(d2, "AttributeError")
             ELSE LET r == RemoveHighestRoll(d2)
                  IN  IF r.status = "ok" THEN Ok(r.d, CurrentTotalOf(r.d)) ELSE r

\* RollManager.add_dice: the container's add_dice, then a message that reads
\* self._dice.Die_type
MgrAddDice(d, kind, number) ==
    LET d1 == AddDice(d, kind, number)
    IN  IF "Die_type" \notin DiceAttrs("engine") THEN Raise(d1, "AttributeError")
        ELSE Ok(d1, 0)

\* RollManager.remove_lowest_roll: a pass-through to the container
MgrRemoveLowestRoll(d) ==
    IF "remove_lowest_roll" \notin DiceAttrs("engine") THEN Raise(d, "AttributeError")
    ELSE RemoveLowestRoll(d)

\* RollManager.remove_highest_roll: a pass-through to the container
MgrRemoveHighestRoll(d) ==
    IF "remove_highest_roll" \notin DiceAttrs("engine") THEN Raise(d, "AttributeError")
    ELSE RemoveHighestRoll(d)

----------------------------------------------------------------------------
(* freeze / unfreeze by reference: Dice.freeze and Dice.unfreeze of         *)
(* DiceEngine/dice.py, RollManager.freeze and RollManager.unfreeze.  The   *)
(* dice argument is a record: tag is "None", "Die" (ref is the object),    *)
(* "list" (elems, each a Die object or some other value) or "scalar" (a    *)
(* value that is no Die and no list, truthy or not).                       *)

NoTarget == [tag |-> "None", ref |-> 0, elems |-> <<>>, truthy |-> FALSE]

DieTarget(a) == [tag |-> "Die", ref |-> a, elems |-> <<>>, truthy |-> TRUE]

ListTarget(es) == [tag |-> "list", ref |-> 0, elems |-> es, truthy |-> es # <<>>]

ScalarTarget(b) == [tag |-> "scalar", ref |-> 0, elems |-> <<>>, truthy |-> b]

\* a list element that is a Die object, and one that is not
DieElem(a) == [isdie |-> TRUE, ref |-> a]

OtherElem == [isdie |-> FALSE, ref |-> 0]

\* all(isinstance(d, Die) for d in dice)
AllDieElems(es) == \A i \in 1..Len(es) : es[i].isdie

\* [d for d in (dice if isinstance(dice, list) else [dice]) if not isinstance(d, Die)]
NonDieValues(t) ==
    IF t.tag = "list" THEN SelectSeq(t.elems, LAMBDA e : ~e.isdie)
    ELSE IF t.tag = "Die" THEN <<>> ELSE <<OtherElem>>

\* Dice.__validate_method_params_freeze_unfreeze (DiceEngine/dice.py), the body
DiceValidate(t, all_dice) ==
    IF t.tag = "None" /\ ~all_dice THEN "ValueError"
    ELSE IF t.tag # "None" /\ all_dice THEN "ValueError"
    ELSE IF t.tag = "Die" THEN "ok"
    ELSE IF t.tag = "list" /\ AllDieElems(t.elems) THEN "ok"
    ELSE "ValueError"

\* the parameters Dice.__validate_method_params_freeze_unfreeze is defined with
DiceValidateParams == <<"dice", "all_dice">>

\* Dice.freeze (DiceEngine/dice.py): the validator is called as a bound method,
\* self.__validate...(dice, all_dice), so it receives self as well; both
\* branches after it are pass
DiceFreeze(d, t, all_dice) ==
    IF Len(<<"self", "dice", "all_dice">>) # Len(DiceValidateParams)
    THEN Raise(d, "TypeError")
    ELSE IF DiceValidate(t, all_dice) # "ok" THEN Raise(d, DiceValidate(t, all_dice))
    ELSE Ok(d, 0)

\* the parameters Dice.unfreeze is defined with
DiceUnfreezeParams == <<"dice", "all_dice">>

\* Dice.unfreeze (DiceEngine/dice.py): defined without self, so the instance is
\* bound to dice and a positional target to all_dice; its body reads self
DiceUnfreeze(d, t, all_dice) ==
    IF t.tag # "None" /\ all_dice THEN Raise(d, "TypeError")
    ELSE IF "self" \notin {DiceUnfreezeParams[i] : i \in 1..Len(DiceUnfreezeParams)}
         THEN Raise(d, "NameError")
         ELSE IF DiceValidate(t, all_dice) # "ok" THEN Raise(d, DiceValidate(t, all_dice))
         ELSE Ok(d, 0)

\* the attributes of a RollManager instance
MgrAttrs ==
    {"_dice", "roll", "roll_with_advantage", "roll_with_disadvantage", "get_roll_total",
     "add_dice", "remove_lowest_roll", "remove_highest_roll", "freeze", "unfreeze"}

\* RollManager.__validate_method_params_freeze_unfreeze
MgrValidate(t, all_dice) ==
    IF ~t.truthy /\ ~all_dice THEN "ValueError"
    ELSE IF t.tag # "None" /\ all_dice THEN "ValueError"
    ELSE IF t.tag = "Die" THEN "ok"
    ELSE IF t.tag = "list" /\ AllDieElems(t.elems) THEN "ok"
    ELSE IF ~t.truthy /\ all_dice THEN "ok"
    ELSE IF NonDieValues(t) # <<>> THEN "ValueError"
    ELSE "ok"

\* a freeze of one die that toggles whatever the flag is
MgrFreezeOneToggle(d, a) == [d EXCEPT !.heap[a] = ToggleFreeze(@)]

\* RollManager.freeze(die) for a Die: dice.is_frozen or dice.toggle_freeze()
MgrFreezeOne(d, a) ==
    IF d.heap[a].is_frozen THEN d ELSE [d EXCEPT !.heap[a] = ToggleFreeze(@)]

\* an unfreeze of one die with the test of the flag inverted
MgrUnfreezeOneInverted(d, a) ==
    IF d.heap[a].is_frozen THEN d ELSE [d EXCEPT !.heap[a] = ToggleFreeze(@)]

\* RollManager.unfreeze(die) for a Die: dice.is_frozen and dice.toggle_freeze()
MgrUnfreezeOne(d, a) ==
    IF d.heap[a].is_frozen THEN [d EXCEPT !.heap[a] = ToggleFreeze(@)] ELSE d

\* for die in dice: self.freeze(die), on a list of Die objects
RECURSIVE MgrFreezeEach(_, _)
MgrFreezeEach(d, es) ==
    IF es = <<>> THEN d ELSE MgrFreezeEach(MgrFreezeOne(d, Head(es).ref), Tail(es))

\* for die in dice: self.unfreeze(die), on a list of Die objects
RECURSIVE MgrUnfreezeEach(_, _)
MgrUnfreezeEach(d, es) ==
    IF es = <<>> THEN d ELSE MgrUnfreezeEach(MgrUnfreezeOne(d, Head(es).ref), Tail(es))

\* the list of Die objects self.dice denotes
ElemsOf(ds) == [i \in 1..Len(ds) |-> DieElem(ds[i])]

\* RollManager.freeze
MgrFreeze(d, t, all_dice) ==
    IF MgrValidate(t, all_dice) # "ok" THEN Raise(d, MgrValidate(t, all_dice))
    ELSE IF t.tag = "Die" THEN Ok(MgrFreezeOne(d, t.ref), 0)
    ELSE IF t.tag = "list" /\ AllDieElems(t.elems) THEN Ok(MgrFreezeEach(d, t.elems), 0)
    ELSE IF all_dice
         THEN IF "dice" \notin MgrAttrs THEN Raise(d, "AttributeError")
              ELSE Ok(MgrFreezeEach(d, ElemsOf(d.dice)), 0)
         ELSE Ok(d, 0)

\* RollManager.unfreeze
MgrUnfreeze(d, t, all_dice) ==
    IF MgrValidate(t, all_dice) # "ok" THEN Raise(d, MgrValidate(t, all_dice))
    ELSE IF t.tag = "Die" THEN Ok(MgrUnfreezeOne(d, t.ref), 0)
    ELSE IF t.tag = "list" /\ AllDieElems(t.elems) THEN Ok(MgrUnfreezeEach(d, t.elems), 0)
    ELSE IF all_dice
         THEN IF "dice" \notin MgrAttrs THEN Raise(d, "AttributeError")
              ELSE Ok(MgrUnfreezeEach(d, ElemsOf(d.dice)), 0)
         ELSE Ok(d, 0)

----------------------------------------------------------------------------
(* The state machine: a caller builds one container and calls its methods. *)

\* the lists of dice a caller hands to from_dice_list, as heap and list: dice
\* of one class, never rolled or all already showing their highest face
CallerLists ==
    UNION {{[heap |-> [i \in 1..n |-> [NewDie(k) EXCEPT !.rolled = v]],
             list |-> [i \in 1..n |-> i]] :
               n \in 1..MaxDice, v \in {0, FaceCountOf(k)}} : k \in Kinds}

Commit(d) ==
    /\ count' = d.count
    /\ dice' = d.dice
    /\ roll_history' = d.roll_history
    /\ heap' = d.heap

Returned(op, r) == ret' = [op |-> op, status |-> r.status, value |-> r.value]

\* one more call, within the explored number of calls
CanCall == ncalls < MaxCalls

\* the Die objects that exist before and after a call and whose is_frozen differs
Flipped(h, h2) ==
    {a \in 1..Len(h) : /\ a <= Len(h2)
                       /\ h[a].kind # "freed" /\ h2[a].kind = h[a].kind
                       /\ h2[a].is_frozen # h[a].is_frozen}

Called == ncalls' = ncalls + 1 /\ toggled' = Flipped(heap, heap')

InitOf(cls) ==
    /\ impl = cls
    /\ nrolls = 0
    /\ ncalls = 0
    /\ toggled = {}
    /\ \/ \E k \in Kinds, n \in 0..MaxDice :
            LET d == PostInit(<<>>, k, n)
            IN  /\ die_type = k
                /\ count = d.count /\ dice = d.dice
                /\ roll_history = d.roll_history /\ heap = d.heap
                /\ ctor = [via |-> "Dice", n |-> n]
                /\ ret = [op |-> "Dice", status |-> "ok", value |-> 0]
       \/ \E c \in CallerLists :
            LET d == FromDiceList(c.heap, c.list)
            IN  /\ DOMAIN c.heap = 1..Len(c.list)
                /\ die_type = c.heap[c.list[1]].kind
                /\ count = d.count /\ dice = d.dice
                /\ roll_history = d.roll_history /\ heap = d.heap
                /\ ctor = [via |-> "from_dice_list", n |-> Len(c.list)]
                /\ ret = [op |-> "from_dice_list", status |-> "ok", value |-> 0]

\* dice.roll()
CallRoll ==
    /\ CanCall
    /\ nrolls < MaxRolls
    /\ \E draws \in DrawsOf(Cur) :
          /\ Commit(Roll(Cur, draws))
          /\ ret' = [op |-> "roll", status |-> "ok", value |-> 0]
    /\ nrolls' = nrolls + 1
    /\ Called /\ UNCHANGED <<impl, die_type, ctor>>

\* dice.add_dice(number)
CallAddDice ==
    /\ CanCall
    /\ \E number \in 0..MaxDice :
          /\ Len(dice) + number <= MaxDice
          /\ Commit(AddDice(Cur, die_type, number))
          /\ ret' = [op |-> "add_dice", status |-> "ok", value |-> number]
    /\ Called /\ UNCHANGED <<impl, die_type, ctor, nrolls>>

\* a call of a method that may not exist on the container class
CallMethod(name, r) ==
    /\ CanCall
    /\ IF name \in DiceAttrs(impl)
       THEN Commit(r.d) /\ Returned(name, r)
       ELSE Commit(Cur) /\ Returned(name, Raise(Cur, "AttributeError"))
    /\ Called /\ UNCHANGED <<impl, die_type, ctor, nrolls>>

\* dice.remove_lowest_roll()
CallRemoveLowestRoll == CallMethod("remove_lowest_roll", RemoveLowestRoll(Cur))

\* dice.remove_highest_roll()
CallRemoveHighestRoll == CallMethod("remove_highest_roll", RemoveHighestRoll(Cur))

\* the indexes the callers pass
Indexes == -1..MaxDice

\* dice.freeze_die(ind)
CallFreezeDie == \E ind \in Indexes : CallMethod("freeze_die", FreezeDie(Cur, ind))

\* dice.unfreeze_die(ind)
CallUnfreezeDie == \E ind \in Indexes : CallMethod("unfreeze_die", UnfreezeDie(Cur, ind))

\* dice.freeze_all_dice()
CallFreezeAllDice == CallMethod("freeze_all_dice", FreezeAllDice(Cur))

\* dice.unfreeze_all_dice()
CallUnfreezeAllDice == CallMethod("unfreeze_all_dice", UnfreezeAllDice(Cur))

\* the lists of indexes the callers pass to freeze_dice and unfreeze_dice
IndexLists == {<<i>> : i \in Indexes} \cup {<<i, j>> : i \in Indexes, j \in Indexes}

\* dice.freeze_dice(indexes)
CallFreezeDice ==
    \E indexes \in IndexLists : CallMethod("freeze_dice", FreezeDice(Cur, indexes))

\* dice.unfreeze_dice(indexes)
CallUnfreezeDice ==
    \E indexes \in IndexLists : CallMethod("unfreeze_dice", UnfreezeDice(Cur, indexes))

\* dice.dice[i].roll(): the caller rolls one die of the pool
CallDieRoll ==
    /\ CanCall
    /\ \E i \in 1..Len(dice) : \E drawn \in RandInt(heap[dice[i]]) :
          /\ heap' = [heap EXCEPT ![dice[i]] = DieRoll(@, drawn)]
          /\ ret' = [op |-> "Die.roll", status |-> "ok", value |-> heap'[dice[i]].rolled]
    /\ Called /\ UNCHANGED <<impl, die_type, count, dice, roll_history, ctor, nrolls>>

\* dice.dice[i].toggle_freeze(): the caller toggles one die of the pool
CallToggleFreeze ==
    /\ CanCall
    /\ \E i \in 1..Len(dice) :
          /\ heap' = [heap EXCEPT ![dice[i]] = ToggleFreeze(@)]
          /\ ret' = [op |-> "Die.toggle_freeze", status |-> "ok", value |-> 0]
    /\ Called /\ UNCHANGED <<impl, die_type, count, dice, roll_history, ctor, nrolls>>

\* RollManager(dice).roll()
CallMgrRoll ==
    /\ CanCall
    /\ nrolls < MaxRolls
    /\ impl = "engine"
    /\ \E draws \in DrawsOf(Cur) :
          LET r == MgrRoll(Cur, draws)
          IN  Commit(r.d) /\ Returned("RollManager.roll", r)
    /\ nrolls' = nrolls + 1
    /\ Called /\ UNCHANGED <<impl, die_type, ctor>>

\* the draws of a roll_with_advantage / roll_with_disadvantage call: those of the
\* pool with the added die when the call gets as far as rolling, none otherwise
MgrDraws ==
    IF "Die_type" \in DiceAttrs("engine") THEN DrawsOf(AddDice(Cur, die_type, 1)) ELSE {<<>>}

\* RollManager(dice).roll_with_advantage()
CallRollWithAdvantage ==
    /\ CanCall
    /\ impl = "engine"
    /\ \E draws \in MgrDraws :
          LET r == RollWithAdvantage(Cur, die_type, draws)
          IN  /\ Commit(r.d) /\ Returned("roll_with_advantage", r)
              /\ nrolls' = nrolls + (IF "Die_type" \in DiceAttrs("engine") THEN 1 ELSE 0)
    /\ Called /\ UNCHANGED <<impl, die_type, ctor>>

\* RollManager(dice).roll_with_disadvantage()
CallRollWithDisadvantage ==
    /\ CanCall
    /\ impl = "engine"
    /\ \E draws \in MgrDraws :
          LET r == RollWithDisadvantage(Cur, die_type, draws)
          IN  /\ Commit(r.d) /\ Returned("roll_with_disadvantage", r)
              /\ nrolls' = nrolls + (IF "Die_type" \in DiceAttrs("engine") THEN 1 ELSE 0)
    /\ Called /\ UNCHANGED <<impl, die_type, ctor>>

\* the dice of the list ds at the positions of S, in list order
RECURSIVE PickFrom(_, _, _)
PickFrom(ds, S, i) ==
    IF i > Len(ds) THEN <<>>
    ELSE (IF i \in S THEN <<DieElem(ds[i])>> ELSE <<>>) \o PickFrom(ds, S, i + 1)

\* the dice arguments the callers pass to freeze and unfreeze: nothing, a die of
\* the pool, a list of dice of the pool (possibly empty), the empty list or the
\* whole pool followed by a value that is no Die, or a value that is no Die
Targets ==
    {NoTarget}
    \cup {DieTarget(dice[i]) : i \in 1..Len(dice)}
    \cup {ListTarget(PickFrom(dice, S, 1)) : S \in SUBSET (1..Len(dice))}
    \cup {ListTarget(Append(PickFrom(dice, S, 1), OtherElem)) : S \in {{}, 1..Len(dice)}}
    \cup {ScalarTarget(b) : b \in BOOLEAN}

\* the (dice, all_dice) arguments of the calls: every target without all_dice,
\* and all_dice=True alone or next to a target of each shape
FreezeCalls ==
    {<<t, FALSE>> : t \in Targets}
    \cup {<<NoTarget, TRUE>>, <<ListTarget(<<>>), TRUE>>, <<ListTarget(ElemsOf(dice)), TRUE>>}
    \cup {<<DieTarget(dice[i]), TRUE>> : i \in 1..Len(dice)}
    \cup {<<ScalarTarget(b), TRUE>> : b \in BOOLEAN}

\* a call on the RollManager around the container
CallMgr(name, r) ==
    /\ CanCall
    /\ impl = "engine"
    /\ Commit(r.d) /\ Returned(name, r)
    /\ Called /\ UNCHANGED <<impl, die_type, ctor, nrolls>>

\* dice.freeze(t, all_dice)
CallDiceFreeze ==
    \E c \in FreezeCalls : CallMethod("freeze", DiceFreeze(Cur, c[1], c[2]))

\* dice.unfreeze(t, all_dice)
CallDiceUnfreeze ==
    \E c \in FreezeCalls : CallMethod("unfreeze", DiceUnfreeze(Cur, c[1], c[2]))

\* RollManager(dice).freeze(t, all_dice)
CallMgrFreeze ==
    \E c \in FreezeCalls : CallMgr("RollManager.freeze", MgrFreeze(Cur, c[1], c[2]))

\* RollManager(dice).unfreeze(t, all_dice)
CallMgrUnfreeze ==
    \E c \in FreezeCalls : CallMgr("RollManager.unfreeze", MgrUnfreeze(Cur, c[1], c[2]))

\* RollManager(dice).add_dice(number)
CallMgrAddDice ==
    \E number \in 0..MaxDice :
        /\ Len(dice) + number <= MaxDice
        /\ CallMgr("RollManager.add_dice", MgrAddDice(Cur, die_type, number))

\* RollManager(dice).remove_lowest_roll()
CallMgrRemoveLowestRoll == CallMgr("RollManager.remove_lowest_roll", MgrRemoveLowestRoll(Cur))

\* RollManager(dice).remove_highest_roll()
CallMgrRemoveHighestRoll == CallMgr("RollManager.remove_highest_roll", MgrRemoveHighestRoll(Cur))

\* a caller of the Dice of Dice.py
Init == InitOf("legacy")

Next ==
    \/ CallRoll
    \/ CallAddDice
    \/ CallRemoveLowestRoll
    \/ CallRemoveHighestRoll
    \/ CallFreezeDie
    \/ CallUnfreezeDie
    \/ CallDieRoll

Spec == Init /\ [][Next]_vars

\* a caller of the Dice of Dice.py who freezes and unfreezes the whole pool
\* between rolls, additions and removals
NextAll ==
    \/ CallRoll
    \/ CallAddDice
    \/ CallRemoveLowestRoll
    \/ CallRemoveHighestRoll
    \/ CallFreezeAllDice
    \/ CallUnfreezeAllDice

SpecAll == Init /\ [][NextAll]_vars

\* a caller of the Dice of Dice.py who freezes and unfreezes dice by lists of
\* indexes
NextIndexes ==
    \/ CallRoll
    \/ CallAddDice
    \/ CallFreezeDice
    \/ CallUnfreezeDice

SpecIndexes == Init /\ [][NextIndexes]_vars

\* a caller of the Dice of DiceEngine/dice.py and of a RollManager around it
InitMgr == InitOf("engine")

NextMgr ==
    \/ CallRoll
    \/ CallAddDice
    \/ CallToggleFreeze
    \/ CallMgrRoll
    \/ CallRollWithAdvantage
    \/ CallRollWithDisadvantage
    \/ CallMgrAddDice
    \/ CallMgrRemoveLowestRoll
    \/ CallMgrRemoveHighestRoll

SpecMgr == InitMgr /\ [][NextMgr]_vars

\* a caller who freezes and unfreezes dice by reference through a RollManager
\* around a Dice(kind, n) of DiceEngine/dice.py, and rolls the container
NextFreeze ==
    \/ CallRoll
    \/ CallMgrFreeze
    \/ CallMgrUnfreeze

\* RollManager(Dice(kind, n)): the container is built by its constructor
InitFreeze == InitMgr /\ ctor.via = "Dice"

SpecFreeze == InitFreeze /\ [][NextFreeze]_vars

\* a caller who freezes and unfreezes dice by reference on the Dice of
\* DiceEngine/dice.py itself
NextDiceFreeze ==
    \/ CallRoll
    \/ CallAddDice
    \/ CallDiceFreeze
    \/ CallDiceUnfreeze

SpecDiceFreeze == InitMgr /\ [][NextDiceFreeze]_vars

----------------------------------------------------------------------------
(* Construction: Dice(die_type, count), Dice.from_dice_list(dice_list) and *)
(* RollManager(dice_input), called by a caller who made some dice first    *)
(* and keeps the references it passed in and the lists it was handed back. *)

\* the die classes of a caller who mixes dice of two classes
DieKinds == {"CallerDie", "OtherDie"}

\* the fields of a container that does not exist
NoDice(h) == [count |-> 0, dice |-> <<>>, roll_history |-> <<>>, heap |-> h]

\* type(dice_list[0])
FirstDieType(h, dice_list) == h[dice_list[1]].kind

\* Dice.from_dice_list: the ValueError on an empty list, or the new container
DiceFromDiceList(h, dice_list) ==
    IF dice_list = <<>> THEN Raise(NoDice(h), "ValueError")
    ELSE Ok(FromDiceList(h, dice_list), 0)

\* the argument of RollManager(dice_input): a Die object, a list of Die
\* objects, the Dice object the caller built, or a value of another type
NoInput == [tag |-> "none", ref |-> 0, list |-> <<>>]

DieInput(a) == [tag |-> "Die", ref |-> a, list |-> <<>>]

ListInput(ds) == [tag |-> "list", ref |-> 0, list |-> ds]

DiceInput == [tag |-> "Dice", ref |-> 0, list |-> <<>>]

OtherInput == [tag |-> "other", ref |-> 0, list |-> <<>>]

\* a RollManager.__init__ that rebuilds a container from the dice of the Dice
\* it is given
MgrInitRebuilds(d, input) ==
    IF input.tag = "Die" THEN DiceFromDiceList(d.heap, <<input.ref>>)
    ELSE IF input.tag = "list"
         THEN IF input.list = <<>> THEN Raise(d, "ValueError")
              ELSE DiceFromDiceList(d.heap, input.list)
    ELSE IF input.tag = "Dice" THEN DiceFromDiceList(d.heap, d.dice)
    ELSE Raise(d, "TypeError")

\* RollManager.__init__: the fields of self._dice and, as value, 1 when
\* self._dice is the object passed in and 0 when from_dice_list made it;
\* d holds the fields of the Dice the caller passes, if it passes one
MgrInit(d, input) ==
    IF input.tag = "Die" THEN DiceFromDiceList(d.heap, <<input.ref>>)
    ELSE IF input.tag = "list"
         THEN IF input.list = <<>> THEN Raise(d, "ValueError")
              ELSE DiceFromDiceList(d.heap, input.list)
    ELSE IF input.tag = "Dice" THEN Ok(d, 1)
    ELSE Raise(d, "TypeError")

\* the dice a caller makes before it builds a container: up to MaxDice dice of
\* the two classes, never rolled or showing their highest face
CallerDice ==
    UNION {[1..n -> UNION {{[NewDie(k) EXCEPT !.rolled = v] : v \in {0, FaceCountOf(k)}} :
                              k \in DieKinds}] : n \in 0..MaxDice}

\* the lists a caller makes of its dice: any of them, in any order, none twice
DiceLists(h) ==
    {ds \in UNION {[1..n -> 1..Len(h)] : n \in 0..Len(h)} :
        \A i \in 1..Len(ds), j \in 1..Len(ds) : i # j => ds[i] # ds[j]}

\* nothing built yet: the caller holds its dice only
InitCtor ==
    /\ impl \in {"legacy", "engine"}
    /\ die_type = "none"
    /\ count = 0 /\ dice = <<>> /\ roll_history = <<>>
    /\ heap \in CallerDice
    /\ ret = [op |-> "none", status |-> "ok", value |-> 0]
    /\ ctor = [via |-> "none", n |-> 0, input |-> NoInput]
    /\ nrolls = 0 /\ ncalls = 0 /\ toggled = {}

\* Dice(die_type, count)
CallNewDice ==
    /\ CanCall
    /\ ctor.via = "none"
    /\ \E k \in DieKinds, n \in 0..MaxDice :
          /\ Commit(PostInit(heap, k, n))
          /\ die_type' = k
          /\ ctor' = [via |-> "Dice", n |-> n, input |-> NoInput]
          /\ ret' = [op |-> "Dice", status |-> "ok", value |-> 0]
    /\ Called /\ UNCHANGED <<impl, nrolls>>

\* Dice.from_dice_list(dice_list)
CallFromDiceList ==
    /\ CanCall
    /\ ctor.via = "none"
    /\ \E ds \in DiceLists(heap) :
          LET r == DiceFromDiceList(heap, ds)
          IN  /\ Commit(r.d) /\ Returned("from_dice_list", r)
              /\ die_type' = IF r.status = "ok" THEN FirstDieType(heap, ds) ELSE die_type
              /\ ctor' = [via   |-> IF r.status = "ok" THEN "from_dice_list" ELSE "none",
                          n     |-> Len(ds),
                          input |-> ListInput(ds)]
    /\ Called /\ UNCHANGED <<impl, nrolls>>

\* the arguments a caller passes to RollManager(...): the Dice it built, or one
\* of its dice, a list of them, or something else
MgrInputs ==
    IF ctor.via # "none" THEN {DiceInput}
    ELSE {DieInput(a) : a \in 1..Len(heap)} \cup {ListInput(ds) : ds \in DiceLists(heap)}
            \cup {OtherInput}

\* RollManager(dice_input)
CallNewRollManager ==
    /\ CanCall
    /\ impl = "engine"
    /\ ctor.via \in {"none", "Dice", "from_dice_list"}
    /\ \E input \in MgrInputs :
          LET r == MgrInit(Cur, input)
          IN  /\ Commit(r.d) /\ Returned("RollManager", r)
              /\ die_type' = IF r.status = "ok" /\ input.tag # "Dice"
                             THEN FirstDieType(heap, r.d.dice) ELSE die_type
              /\ ctor' = [via   |-> IF r.status = "ok" THEN "RollManager" ELSE ctor.via,
                          n     |-> Len(r.d.dice),
                          input |-> input]
    /\ Called /\ UNCHANGED <<impl, nrolls>>

\* the first dice.roll() on the container that was built; the caller keeps the
\* list it returns
CallRollBuilt == ctor.via # "none" /\ nrolls = 0 /\ CallRoll

\* the Die objects the caller has a reference to: those it passed to
\* from_dice_list or RollManager and those of the list roll() just returned
CallerHeld ==
    {ctor.input.list[i] : i \in 1..Len(ctor.input.list)}
        \cup (IF ctor.input.tag = "Die" THEN {ctor.input.ref} ELSE {})
        \cup (IF ret.op = "roll"
              THEN {CurrentRollOf(Cur)[i] : i \in 1..Len(CurrentRollOf(Cur))} ELSE {})

\* die.roll() on a Die object the caller has a reference to
CallHeldDieRoll ==
    /\ CanCall
    /\ ctor.via # "none"
    /\ \E a \in CallerHeld : \E drawn \in RandInt(heap[a]) :
          /\ heap' = [heap EXCEPT ![a] = DieRoll(@, drawn)]
          /\ ret' = [op |-> "held.roll", status |-> "ok", value |-> heap'[a].rolled]
    /\ Called /\ UNCHANGED <<impl, die_type, count, dice, roll_history, ctor, nrolls>>

\* a caller who builds a container, perhaps a manager around it, and rolls
NextCtor ==
    \/ CallNewDice
    \/ CallFromDiceList
    \/ CallNewRollManager
    \/ CallRollBuilt

SpecCtor == InitCtor /\ [][NextCtor]_vars

\* the same caller, who also rolls the Die objects it holds itself
NextHeld ==
    \/ CallFromDiceList
    \/ CallNewRollManager
    \/ CallRollBuilt
    \/ CallHeldDieRoll

SpecHeld == InitCtor /\ [][NextHeld]_vars

----------------------------------------------------------------------------
(* Die arithmetic and comparison: a caller holds two Die objects, rolls and *)
(* freezes them, and then evaluates one expression that compares them or   *)
(* combines them with each other and with other values.                    *)

\* the two dice: of either class, built with the face_count of the class or
\* with face_count passed to the constructor, not rolled yet
TwoDice ==
    [1..2 -> {[NewDie(k) EXCEPT !.face_count = f] : k \in DieKinds, f \in {Faces, Faces + 1}}]

\* the integers the caller combines a die with
IntOperands == {IntOperand(n) : n \in (-(Faces + 1))..(Faces + 1)}

\* the values that are neither Die nor int: 0.0, 2.5 and a string
ForeignOperands == {FloatOperand(0), FloatOperand(5), StrOperand}

\* the comparison and the arithmetic operators
CompareOps == {"==", "<", "<=", ">", ">="}

ArithOps == {"+", "-", "*", "/"}

\* the lists handed to sum(): the two dice and the integers 0 and -1, in any
\* order, up to MaxDice items
SumLists ==
    UNION {[1..n -> {heap[1], heap[2], IntOperand(0), IntOperand(-1)}] : n \in 0..MaxDice}

InitDie ==
    /\ impl = "none" /\ die_type = "none"
    /\ count = 0 /\ dice = <<>> /\ roll_history = <<>>
    /\ heap \in TwoDice
    /\ ret = [op |-> "none", status |-> "ok", value |-> 0, self |-> Freed, other |-> <<>>]
    /\ ctor = [via |-> "none", n |-> 0]
    /\ nrolls = 0 /\ ncalls = 0 /\ toggled = {}

\* no expression was evaluated yet
Preparing == ret.op \in {"none", "Die.roll", "Die.toggle_freeze"}

\* the expression changed none of the objects
Evaluated ==
    UNCHANGED <<impl, die_type, count, dice, roll_history, heap, ctor, nrolls, ncalls, toggled>>

\* die.roll() on one of the two dice
CallOwnDieRoll ==
    /\ Preparing
    /\ \E a \in 1..2 : \E drawn \in RandInt(heap[a]) :
          /\ heap' = [heap EXCEPT ![a] = DieRoll(@, drawn)]
          /\ ret' = [op |-> "Die.roll", status |-> "ok", value |-> heap'[a].rolled,
                     self |-> heap'[a], other |-> <<>>]
    /\ toggled' = {}
    /\ UNCHANGED <<impl, die_type, count, dice, roll_history, ctor, nrolls, ncalls>>

\* die.toggle_freeze() on one of the two dice
CallOwnToggleFreeze ==
    /\ Preparing
    /\ \E a \in 1..2 :
          /\ heap' = [heap EXCEPT ![a] = ToggleFreeze(@)]
          /\ ret' = [op |-> "Die.toggle_freeze", status |-> "ok", value |-> 0,
                     self |-> heap'[a], other |-> <<>>]
          /\ toggled' = {a}
    /\ UNCHANGED <<impl, die_type, count, dice, roll_history, ctor, nrolls, ncalls>>

\* a == b, a < b, ...: a and b the two dice, or one of them twice
CallCompare ==
    /\ Preparing
    /\ \E op \in CompareOps, a \in 1..2, b \in 1..2 :
          LET r == DieCompare(op, heap[a], heap[b])
          IN  ret' = [op |-> op, status |-> r.status, value |-> r.value,
                      self |-> heap[a], other |-> heap[b]]
    /\ Evaluated

\* die + other, die - other, die * other, die / other
CallDieLeft ==
    /\ Preparing
    /\ \E op \in ArithOps, a \in 1..2 :
       \E other \in IntOperands \cup ForeignOperands \cup {DieOperand(heap[b]) : b \in 1..2} :
          LET r == DieLeft(op, heap[a], other)
          IN  ret' = [op |-> op, status |-> r.status, value |-> r.value,
                      self |-> heap[a], other |-> other]
    /\ Evaluated

\* other + die, other - die, other * die, other / die, other being no Die
CallDieRight ==
    /\ Preparing
    /\ \E op \in ArithOps, a \in 1..2 :
       \E other \in IntOperands \cup ForeignOperands :
          LET r == DieRight(op, heap[a], other)
          IN  ret' = [op |-> "r" \o op, status |-> r.status, value |-> r.value,
                      self |-> heap[a], other |-> other]
    /\ Evaluated

\* sum(items)
CallSum ==
    /\ Preparing
    /\ \E items \in SumLists :
          LET r == SumItems(items, 0)
          IN  ret' = [op |-> "sum", status |-> r.status, value |-> r.value,
                      self |-> Freed, other |-> items]
    /\ Evaluated

NextDie ==
    \/ CallOwnDieRoll
    \/ CallOwnToggleFreeze
    \/ CallCompare
    \/ CallDieLeft
    \/ CallDieRight
    \/ CallSum

SpecDie == InitDie /\ [][NextDie]_vars

----------------------------------------------------------------------------
(* Rendering: a caller of the Dice of DiceEngine/dice.py who rolls, adds   *)
(* dice and prints the container.                                          *)

\* str(dice)
CallStr ==
    /\ CanCall
    /\ ret' = [op |-> "__str__", status |-> DiceStr(Cur).status, value |-> DiceStr(Cur).value]
    /\ UNCHANGED <<impl, die_type, count, dice, roll_history, heap, ctor, nrolls>>
    /\ Called

NextStr ==
    \/ CallRoll
    \/ CallAddDice
    \/ CallStr

SpecStr == InitMgr /\ [][NextStr]_vars

----------------------------------------------------------------------------
(* Freezing dice the pool does not hold: the caller of a RollManager       *)
(* passes Die objects of the list current_roll / roll() handed out.        *)

\* the dice arguments made of the dice of the current roll: one of them, or a
\* list of one of them and the first die of the pool
OutsideTargets ==
    {DieTarget(CurrentRollOf(Cur)[i]) : i \in 1..Len(CurrentRollOf(Cur))}
    \cup {ListTarget(<<DieElem(CurrentRollOf(Cur)[i]), DieElem(dice[1])>>) :
             i \in 1..(IF dice = <<>> THEN 0 ELSE Len(CurrentRollOf(Cur)))}

\* RollManager(dice).freeze(t) with such an argument
CallMgrFreezeOutside ==
    \E t \in OutsideTargets : CallMgr("RollManager.freeze", MgrFreeze(Cur, t, FALSE))

\* RollManager(dice).unfreeze(t) with such an argument
CallMgrUnfreezeOutside ==
    \E t \in OutsideTargets : CallMgr("RollManager.unfreeze", MgrUnfreeze(Cur, t, FALSE))

NextOutside ==
    \/ CallRoll
    \/ CallMgrFreezeOutside
    \/ CallMgrUnfreezeOutside

SpecOutside == InitFreeze /\ [][NextOutside]_vars

----------------------------------------------------------------------------
(* Properties *)

\* the rolled values of the live pool and of the k-th snapshot
PoolValues == Values(heap, dice)

SnapshotValues(k) == Values(heap, roll_history[k])

\* the call that just returned built the container or rolled it
JustBuiltOrRolled ==
    ret.status = "ok" /\ ret.op \in {"Dice", "from_dice_list", "roll", "RollManager.roll"}

\* C1, as stated: in every reachable state roll_history is non-empty and its
\* last entry equals the live pool value-wise (same length, same rolled values).
C1_LastEntryEqualsPool ==
    /\ roll_history # <<>>
    /\ SnapshotValues(Len(roll_history)) = PoolValues

\* C1, amended: roll_history is never empty, and its last entry equals the live
\* pool value-wise right after the construction and right after every roll().
C1_LastEntryEqualsPoolWhenRolled ==
    /\ roll_history # <<>>
    /\ JustBuiltOrRolled => SnapshotValues(Len(roll_history)) = PoolValues

\* a second roll(), of a pool that changed size since the first one
C1_Witness ==
    /\ ret.op = "roll" /\ nrolls = 2
    /\ Len(roll_history[2]) # Len(roll_history[3])
    /\ SnapshotValues(3) = PoolValues

\* C2: count == len(dice) in every reachable state, whichever way the
\* container was built.
C2_CountIsLen == count = Len(dice)

\* C3: count >= 0 in every reachable state.
C3_CountNonNegative == count >= 0

\* C4: a snapshot of roll_history, once appended, keeps its place, its length
\* and the rolled value of each of its entries through every later call.
C4_SnapshotsNeverChange ==
    [][\A k \in 1..Len(roll_history) :
          /\ k <= Len(roll_history')
          /\ Values(heap', roll_history'[k]) = SnapshotValues(k)]_vars

\* the live dice were rolled one by one after a roll() and no longer show what
\* the snapshot of that roll() recorded
C4_Witness ==
    /\ nrolls >= 1 /\ ret.op = "Die.roll"
    /\ Len(dice) = Len(roll_history[Len(roll_history)])
    /\ PoolValues # SnapshotValues(Len(roll_history))

\* C5: after the construction and k completed roll() calls, interleaved with
\* any other calls, len(roll_history) == k + 1; a call never removes or moves
\* an entry.
C5_HistoryGrowsByRollOnly ==
    /\ [](Len(roll_history) = nrolls + 1)
    /\ [][\A k \in 1..Len(roll_history) :
             k <= Len(roll_history') /\ roll_history'[k] = roll_history[k]]_vars

\* two roll() calls and one other call
C5_Witness == nrolls = 2 /\ ncalls = 3 /\ ret.op \notin {"roll", "RollManager.roll"}

\* C6: a freshly constructed Dice(kind, n) has count == n, n dice with
\* rolled == 0, one history entry, current_total == 0, and previous_roll and
\* previous_total raise IndexError.
C6_FreshDice ==
    (ncalls = 0 /\ ctor.via = "Dice") =>
        /\ count = ctor.n
        /\ Len(dice) = ctor.n
        /\ \A i \in 1..Len(dice) : heap[dice[i]].rolled = 0
        /\ Len(roll_history) = 1
        /\ CurrentTotalOf(Cur) = 0
        /\ PreviousRollOf(Cur).status = "IndexError"
        /\ PreviousTotalOf(Cur).status = "IndexError"

\* a fresh Dice(kind, n) with at least two dice
C6_Witness == ncalls = 0 /\ ctor.via = "Dice" /\ ctor.n >= 2 /\ Len(dice) >= 2

\* a list of dice whose unfrozen dice all show a face
UnfrozenInRange(ds) ==
    \A i \in 1..Len(ds) :
        ~heap[ds[i]].is_frozen =>
            heap[ds[i]].rolled >= 1 /\ heap[ds[i]].rolled <= heap[ds[i]].face_count

\* the first roll() of the container just returned
FirstRollDone == nrolls = 1 /\ ret.op \in {"roll", "RollManager.roll"}

\* C7, as stated: for every container, after exactly one roll():
\* len(roll_history) == 2, every unfrozen die shows a value in [1, face_count]
\* in the live pool and in current_roll, and previous_total == 0.
C7_AfterFirstRoll ==
    FirstRollDone =>
        /\ Len(roll_history) = 2
        /\ UnfrozenInRange(dice)
        /\ UnfrozenInRange(CurrentRollOf(Cur))
        /\ PreviousTotalOf(Cur) = [status |-> "ok", value |-> 0]

\* C7, amended: right after the first roll() of a container,
\* len(roll_history) == 2, every unfrozen die shows a value in [1, face_count]
\* in the live pool and in current_roll, and previous_total is the total of
\* snapshot 0: the sum of the values the dice showed at construction, which is
\* 0 for a container built by Dice(kind, n).
C7_AfterFirstRollFromSnapshot0 ==
    FirstRollDone =>
        /\ Len(roll_history) = 2
        /\ UnfrozenInRange(dice)
        /\ UnfrozenInRange(CurrentRollOf(Cur))
        /\ PreviousTotalOf(Cur) = [status |-> "ok", value |-> SeqSum(SnapshotValues(1))]
        /\ ctor.via = "Dice" => PreviousTotalOf(Cur).value = 0

\* the first roll() of a pool with a frozen and an unfrozen die, built from
\* dice that already showed a value
C7_Witness ==
    /\ FirstRollDone
    /\ ctor.via = "from_dice_list" /\ PreviousTotalOf(Cur).value > 0
    /\ \E i, j \in 1..Len(dice) : heap[dice[i]].is_frozen /\ ~heap[dice[j]].is_frozen

\* C8: a die of the pool that is frozen keeps its rolled value through every
\* call as long as it stays frozen, whether the call is Dice.roll or Die.roll,
\* and freeze_die on it changes nothing.
C8_FrozenKeepsValue ==
    [][\A i \in 1..Len(dice) : \A j \in 1..Len(dice') :
          (dice[i] = dice'[j] /\ heap[dice[i]].is_frozen) =>
              /\ heap'[dice[i]].is_frozen => heap'[dice[i]].rolled = heap[dice[i]].rolled
              /\ ret'.op = "freeze_die" => heap'[dice[i]] = heap[dice[i]]]_vars

\* a roll() just went over a pool with a frozen die that shows a face and an
\* unfrozen die
C8_Witness ==
    /\ ret.op = "roll"
    /\ \E i, j \in 1..Len(dice) :
          /\ heap[dice[i]].is_frozen /\ heap[dice[i]].rolled >= 1
          /\ ~heap[dice[j]].is_frozen

\* C9: roll_with_advantage returns the sum of the post-roll values of all
\* n+1 dice minus the single lowest of them.
C9_AdvantageTotal ==
    ret.op = "roll_with_advantage" =>
        /\ ret.status = "ok"
        /\ ret.value = SeqSum(SnapshotValues(Len(roll_history)))
                         - SeqMin(SnapshotValues(Len(roll_history)))

\* C10: roll_with_disadvantage adds one die, rolls all n+1 dice, removes the
\* single highest-valued die and returns the sum of the n remaining values.
C10_DisadvantageTotal ==
    ret.op = "roll_with_disadvantage" =>
        /\ ret.status = "ok"
        /\ ret.value = SeqSum(SnapshotValues(Len(roll_history)))
                         - SeqMax(SnapshotValues(Len(roll_history)))
        /\ ret.value = SeqSum(PoolValues)

RefsOf(t) ==
    IF t.tag = "Die" THEN {t.ref}
    ELSE {t.elems[i].ref : i \in {j \in 1..Len(t.elems) : t.elems[j].isdie}}

\* a target the contract accepts: one die, or a non-empty list of dice
ValidTarget(t) ==
    \/ t.tag = "Die"
    \/ t.tag = "list" /\ t.elems # <<>> /\ AllDieElems(t.elems)

\* the fields d1 are the fields d with exactly the dice of S frozen in addition
FrozenExactly(d, d1, S) ==
    /\ d1.dice = d.dice /\ d1.count = d.count /\ d1.roll_history = d.roll_history
    /\ Len(d1.heap) = Len(d.heap)
    /\ \A a \in 1..Len(d.heap) :
          d1.heap[a] = IF a \in S THEN [d.heap[a] EXCEPT !.is_frozen = TRUE] ELSE d.heap[a]

\* after a roll() of the fields d1, the dice of S show what they showed and
\* every other unfrozen die of the pool shows a face
RollKeeps(d1, S) ==
    \A draws \in DrawsOf(d1) :
        LET d2 == Roll(d1, draws)
        IN  \A i \in 1..Len(d2.dice) :
              LET a == d2.dice[i]
              IN  /\ a \in S => d2.heap[a].rolled = d1.heap[a].rolled
                  /\ (a \notin S /\ ~d2.heap[a].is_frozen) =>
                        d2.heap[a].rolled \in 1..d2.heap[a].face_count

\* C12: freeze(target) on the container, for one die of the pool or a
\* non-empty list of dice of the pool, returns and freezes exactly the targeted
\* dice; at the next roll() they keep their values and every other unfrozen
\* die gets a value in [1, face_count].
C12_FreezeTargets ==
    \A c \in FreezeCalls :
        (ValidTarget(c[1]) /\ ~c[2]) =>
            LET r == DiceFreeze(Cur, c[1], c[2])
            IN  /\ r.status = "ok"
                /\ FrozenExactly(Cur, r.d, RefsOf(c[1]))
                /\ RollKeeps(r.d, RefsOf(c[1]))

\* C13: freeze_all_dice / freeze(all_dice=True) freezes every die of the pool
\* and unfreeze_all_dice / unfreeze(all_dice=True) unfreezes every die of the
\* pool, however the container was built and whatever calls came before.
C13_AllDice ==
    /\ (ret.op = "freeze_all_dice" /\ ret.status = "ok") =>
          \A i \in 1..Len(dice) : heap[dice[i]].is_frozen
    /\ (ret.op = "unfreeze_all_dice" /\ ret.status = "ok") =>
          \A i \in 1..Len(dice) : ~heap[dice[i]].is_frozen

\* a call the contract rejects: no selection, two selections, a target that is
\* no Die, or a list with an element that is no Die
RejectedCall(t, all_dice) ==
    \/ t.tag = "None" /\ ~all_dice
    \/ t.tag # "None" /\ all_dice
    \/ t.tag = "scalar"
    \/ t.tag = "list" /\ ~AllDieElems(t.elems)

\* the call r failed with a value error and left the fields d as they were
ValueErrorNoChange(d, r) == r.status = "ValueError" /\ r.d = d

\* C14: freeze and unfreeze called with neither a target nor all_dice=True,
\* with both, with a target that is no Die or with a list holding a value that
\* is no Die fail with a value error, and no die's is_frozen changes.
C14_RejectedCalls ==
    \A c \in FreezeCalls :
        RejectedCall(c[1], c[2]) =>
            /\ ValueErrorNoChange(Cur, DiceFreeze(Cur, c[1], c[2]))
            /\ ValueErrorNoChange(Cur, DiceUnfreeze(Cur, c[1], c[2]))
            /\ ValueErrorNoChange(Cur, MgrFreeze(Cur, c[1], c[2]))
            /\ ValueErrorNoChange(Cur, MgrUnfreeze(Cur, c[1], c[2]))

\* C15: freeze and unfreeze called with an empty list fail with a value
\* error, in the container and in the RollManager alike.
C15_EmptyList ==
    /\ MgrFreeze(Cur, ListTarget(<<>>), FALSE).status = "ValueError"
    /\ MgrUnfreeze(Cur, ListTarget(<<>>), FALSE).status = "ValueError"
    /\ DiceFreeze(Cur, ListTarget(<<>>), FALSE).status = "ValueError"
    /\ DiceUnfreeze(Cur, ListTarget(<<>>), FALSE).status = "ValueError"

\* the dice of the pool
PoolDice == {dice[i] : i \in 1..Len(dice)}

\* C16: freezing an already-frozen die and unfreezing an already-unfrozen die
\* are no-ops, not errors: freeze(d); freeze(d) leaves the state freeze(d)
\* leaves, also when d is named twice in one list, unfreeze(d) on an unfrozen
\* die changes nothing, and a freeze never unfreezes a die nor an unfreeze
\* freezes one.
C16_RepeatIsNoOp ==
    /\ \A a \in PoolDice :
          LET f1 == MgrFreeze(Cur, DieTarget(a), FALSE)
              f2 == MgrFreeze(f1.d, DieTarget(a), FALSE)
              ff == MgrFreeze(Cur, ListTarget(<<DieElem(a), DieElem(a)>>), FALSE)
              u1 == MgrUnfreeze(Cur, DieTarget(a), FALSE)
              u2 == MgrUnfreeze(u1.d, DieTarget(a), FALSE)
          IN  /\ f1.status = "ok" /\ f2.status = "ok" /\ ff.status = "ok"
              /\ u1.status = "ok" /\ u2.status = "ok"
              /\ f1.d.heap[a].is_frozen /\ f2.d = f1.d /\ ff.d = f1.d
              /\ ~u1.d.heap[a].is_frozen /\ u2.d = u1.d
              /\ heap[a].is_frozen => f1.d = Cur
              /\ ~heap[a].is_frozen => u1.d = Cur
    /\ ret.op = "RollManager.freeze" => \A a \in toggled : heap[a].is_frozen
    /\ ret.op = "RollManager.unfreeze" => \A a \in toggled : ~heap[a].is_frozen

\* a freeze that returned and changed nothing: its dice were frozen already
C16_Witness ==
    /\ ret.op = "RollManager.freeze" /\ ret.status = "ok" /\ toggled = {}
    /\ \E a \in PoolDice : heap[a].is_frozen

\* C17: unfreeze(d) leaves d unfrozen with the value it shows, and after an
\* unfreeze that released a frozen die of the pool, the next roll() can give
\* that die every value of [1, face_count] and no other.
C17_UnfreezeRestoresRolling ==
    /\ \A a \in PoolDice :
          LET u == MgrUnfreeze(Cur, DieTarget(a), FALSE)
          IN  /\ u.status = "ok"
              /\ ~u.d.heap[a].is_frozen
              /\ u.d.heap[a].rolled = heap[a].rolled
    /\ (ret.op = "RollManager.unfreeze" /\ ret.status = "ok") =>
          \A a \in toggled \cap PoolDice :
              /\ ~heap[a].is_frozen
              /\ {Roll(Cur, draws).heap[a].rolled : draws \in DrawsOf(Cur)}
                    = 1..heap[a].face_count

\* an unfreeze just released a die of the pool that was frozen while it showed
\* a face
C17_Witness ==
    /\ ret.op = "RollManager.unfreeze" /\ ret.status = "ok"
    /\ \E a \in toggled \cap PoolDice : heap[a].rolled >= 1 /\ ~heap[a].is_frozen

\* the Die objects the snapshots of roll_history hold
HistoryDice == UNION {{roll_history[k][i] : i \in 1..Len(roll_history[k])} :
                          k \in 1..Len(roll_history)}

\* C18: add_dice(k) for k >= 1 increases count by k and appends k new dice
\* with rolled == 0 and is_frozen == false at the end of the live pool; the
\* dice that were there keep their place and their fields, and roll_history
\* keeps its entries, their lengths and their values.
C18_AddDiceAppends ==
    [][(ret'.op = "add_dice" /\ ret'.value >= 1) =>
          LET k == ret'.value
              n == Len(dice)
          IN  /\ count' = count + k
              /\ Len(dice') = n + k
              /\ \A i \in 1..n : dice'[i] = dice[i] /\ heap'[dice[i]] = heap[dice[i]]
              /\ \A j \in (n + 1)..(n + k) :
                    /\ heap'[dice'[j]] = NewDie(die_type)
                    /\ heap'[dice'[j]].rolled = 0 /\ ~heap'[dice'[j]].is_frozen
                    /\ dice'[j] \notin PoolDice \cup HistoryDice
                    /\ \A i \in (n + 1)..(n + k) : dice'[i] = dice'[j] => i = j
              /\ roll_history' = roll_history
              /\ \A h \in 1..Len(roll_history) :
                    Values(heap', roll_history'[h]) = SnapshotValues(h)]_vars

\* a die was added to a pool whose dice had been rolled
C18_Witness ==
    /\ ret.op = "add_dice" /\ ret.value >= 1 /\ nrolls >= 1
    /\ Len(dice) > ret.value
    /\ heap[dice[1]].rolled >= 1
    /\ heap[dice[Len(dice)]].rolled = 0

\* the first position of the value v in the sequence s
FirstPosOf(s, v) == CHOOSE k \in 1..Len(s) : s[k] = v /\ \A j \in 1..(k - 1) : s[j] # v

\* C19: remove_lowest_roll (remove_highest_roll) on a non-empty pool removes
\* exactly one die, the first in pool order whose rolled is the pool's minimum
\* (maximum), keeps the other dice in order with their fields and decrements
\* count by 1; on a never-rolled pool it removes the first die.
C19_RemoveExtreme ==
    [][(ret'.status = "ok" /\ ret'.op \in {"remove_lowest_roll", "remove_highest_roll"}) =>
          LET v == IF ret'.op = "remove_lowest_roll"
                   THEN SeqMin(PoolValues) ELSE SeqMax(PoolValues)
              k == FirstPosOf(PoolValues, v)
          IN  /\ dice # <<>>
              /\ Len(dice') = Len(dice) - 1
              /\ \A i \in 1..Len(dice') : dice'[i] = IF i < k THEN dice[i] ELSE dice[i + 1]
              /\ \A i \in 1..Len(dice') : heap'[dice'[i]] = heap[dice'[i]]
              /\ count' = count - 1
              /\ roll_history' = roll_history
              /\ (\A i \in 1..Len(dice) : PoolValues[i] = 0) => dice' = Tail(dice)]_vars

\* a remove_lowest_roll right after the roll() of a pool of two dice that came
\* up equal
C19_Witness ==
    /\ ret.op = "remove_lowest_roll" /\ ret.status = "ok"
    /\ nrolls = 1 /\ ncalls = 2 /\ Len(dice) = 1
    /\ Len(roll_history[2]) = 2
    /\ SnapshotValues(2)[1] = SnapshotValues(2)[2]

\* C20: remove_lowest_roll and remove_highest_roll on an empty pool, called
\* on the container or through the RollManager, fail with a value error and
\* leave dice, count and roll_history unchanged.
C20_RemoveOnEmpty ==
    [][(dice = <<>> /\ ret'.op \in {"remove_lowest_roll", "remove_highest_roll",
                                      "RollManager.remove_lowest_roll",
                                      "RollManager.remove_highest_roll"}) =>
          /\ ret'.status = "ValueError"
          /\ dice' = dice /\ count' = count /\ roll_history' = roll_history]_vars

\* C21: previous_roll and previous_total raise IndexError exactly when no
\* roll() has completed on the container (fewer than two snapshots), whatever
\* other calls were made; once a roll() has completed they give
\* roll_history[-2] and the sum of its rolled values.
C21_PreviousNeedsARoll ==
    /\ (PreviousRollOf(Cur).status = "IndexError") <=> (nrolls = 0)
    /\ (PreviousTotalOf(Cur).status = "IndexError") <=> (nrolls = 0)
    /\ (nrolls = 0) <=> (Len(roll_history) < 2)
    /\ nrolls >= 1 =>
          /\ PreviousRollOf(Cur) = [status |-> "ok", list |-> roll_history[Len(roll_history) - 1]]
          /\ PreviousTotalOf(Cur) =
                [status |-> "ok", value |-> SeqSum(SnapshotValues(Len(roll_history) - 1))]

\* two rolls and another call: previous_total is the total of the first roll
C21_Witness ==
    /\ nrolls = 2 /\ ncalls = 3 /\ ret.op \notin {"roll", "Die.roll"}
    /\ PreviousTotalOf(Cur).status = "ok" /\ PreviousTotalOf(Cur).value >= 1

\* C22: there is no partial-failure state: a call that fails leaves the
\* pool, count, the frozen flags and roll_history as they were.
C22_NoPartialFailure ==
    [][ret'.status # "ok" => UNCHANGED <<count, dice, roll_history, heap>>]_vars

C24_FromDiceList ==
    ret.op = "from_dice_list" =>
        LET dice_list == ctor.input.list
        IN  IF dice_list = <<>>
            THEN ret.status = "ValueError" /\ ctor.via = "none" /\ roll_history = <<>>
            ELSE /\ ret.status = "ok"
                 /\ die_type = heap[dice_list[1]].kind
                 /\ dice = dice_list
                 /\ Len(roll_history) = 1
                 /\ SnapshotValues(1) = PoolValues
                 /\ \A i \in 1..Len(dice) :
                       /\ heap[roll_history[1][i]].kind = heap[dice[i]].kind
                       /\ heap[roll_history[1][i]].is_frozen = heap[dice[i]].is_frozen

\* a container built from two dice of different classes, the second made first
C24_Witness ==
    /\ ret.op = "from_dice_list" /\ ret.status = "ok"
    /\ dice = <<2, 1>>
    /\ heap[1].kind # heap[2].kind /\ die_type = heap[2].kind
    /\ heap[1].rolled # heap[2].rolled

\* C25: a roll() of a Die object the caller holds (one it passed to
\* from_dice_list or RollManager, or one of the list roll() returned) changes
\* no die of the pool and no recorded snapshot.
C25_NoOutsideReference ==
    [][ret'.op = "held.roll" =>
         /\ Values(heap', dice) = Values(heap, dice)
         /\ \A k \in 1..Len(roll_history) :
               Values(heap', roll_history[k]) = Values(heap, roll_history[k])]_vars

\* C26: two dice compare by rolled only: a == b iff a.rolled = b.rolled, a < b
\* iff a.rolled < b.rolled, likewise <=, > and >=, whatever their classes,
\* face counts and frozen flags.
C26_CompareByRolled ==
    ret.op \in CompareOps =>
        /\ ret.status = "ok"
        /\ (ret.value = 1) <=>
              CASE ret.op = "==" -> ret.self.rolled = ret.other.rolled
                [] ret.op = "<"  -> ret.self.rolled < ret.other.rolled
                [] ret.op = "<=" -> ret.self.rolled <= ret.other.rolled
                [] ret.op = ">"  -> ret.self.rolled > ret.other.rolled
                [] ret.op = ">=" -> ret.self.rolled >= ret.other.rolled

\* the number an item of a summed list stands for
ItemNumber(item) == IF item.kind = "int" THEN item.n ELSE item.rolled

\* C27: a + b is a.rolled + b.rolled for two dice of the same class, a + n and
\* n + a are a.rolled + n for every integer n, and sum() of a list of dice and
\* integers is the sum of the rolled values and the integers.
C27_Addition ==
    /\ (ret.op = "+" /\ ret.other.kind = ret.self.kind) =>
          ret.status = "ok" /\ ret.value = ret.self.rolled + ret.other.n
    /\ (ret.op \in {"+", "r+"} /\ ret.other.kind = "int") =>
          ret.status = "ok" /\ ret.value = ret.self.rolled + ret.other.n
    /\ ret.op = "sum" =>
          /\ ret.status = "ok"
          /\ ret.value = SeqSum([i \in 1..Len(ret.other) |-> ItemNumber(ret.other[i])])

\* the sum of two rolled dice of different classes
C27_Witness ==
    /\ ret.op = "sum" /\ Len(ret.other) = 2
    /\ ret.other[1].kind \in DieKinds /\ ret.other[2].kind \in DieKinds
    /\ ret.other[1].kind # ret.other[2].kind
    /\ ret.other[1].rolled >= 1 /\ ret.other[2].rolled >= 2
    /\ ret.value = ret.other[1].rolled + ret.other[2].rolled

\* C28: a - b is a.rolled - b.rolled for two dice of the same class, and for
\* every integer n, 0 and the negative ones included, a - n is a.rolled - n
\* and n - a is n - a.rolled.
C28_Subtraction ==
    /\ (ret.op = "-" /\ ret.other.kind \in {"int", ret.self.kind}) =>
          ret.status = "ok" /\ ret.value = ret.self.rolled - ret.other.n
    /\ (ret.op = "r-" /\ ret.other.kind = "int") =>
          ret.status = "ok" /\ ret.value = ret.other.n - ret.self.rolled

\* q is x divided by y rounded down: the remainder has the sign of y
IsFloorQuotient(q, x, y) ==
    LET r == x - q * y
    IN  IF y > 0 THEN 0 <= r /\ r < y ELSE y < r /\ r <= 0

\* C29: a / n and a / b (b of the class of a) are a.rolled divided by n or by
\* b.rolled, rounded down, n / a is n divided by a.rolled, rounded down, and
\* each raises ZeroDivisionError when the divisor is zero.
C29_Division ==
    /\ (ret.op = "/" /\ ret.other.kind \in {"int", ret.self.kind}) =>
          IF ret.other.n = 0 THEN ret.status = "ZeroDivisionError"
          ELSE /\ ret.status = "ok"
               /\ IsFloorQuotient(ret.value, ret.self.rolled, ret.other.n)
    /\ (ret.op = "r/" /\ ret.other.kind = "int") =>
          IF ret.self.rolled = 0 THEN ret.status = "ZeroDivisionError"
          ELSE /\ ret.status = "ok"
               /\ IsFloorQuotient(ret.value, ret.other.n, ret.self.rolled)

\* -3 / a with a.rolled = 2: the quotient is rounded down to -2
C29_Witness ==
    /\ ret.op = "r/" /\ ret.other = IntOperand(-3)
    /\ ret.self.rolled = 2 /\ ret.status = "ok" /\ ret.value = -2

\* C30: +, -, * and / between a Die and a value that is neither an integer nor
\* a Die of the same class raise an error of type or value, and return
\* no number.
C30_UnsupportedOperand ==
    (/\ ret.op \in ArithOps \cup {"r" \o op : op \in ArithOps}
     /\ ret.other.kind \notin {"int", ret.self.kind}) =>
        ret.status \in {"ValueError", "TypeError"}

C32_ToggleFreeze ==
    /\ \A a \in 1..Len(heap) : ~heap[a].is_frozen
    /\ [][/\ ret'.op = "Die.toggle_freeze" =>
               \E a \in 1..Len(heap) :
                  /\ \A b \in (1..Len(heap)) \ {a} : heap'[b] = heap[b]
                  /\ heap'[a].is_frozen = ~heap[a].is_frozen
                  /\ heap'[a].rolled = heap[a].rolled
                  /\ heap'[a].face_count = heap[a].face_count
                  /\ heap'[a].kind = heap[a].kind
                  /\ DieName(heap'[a]) = DieName(heap[a])
          /\ \A a \in 1..Len(heap) : ToggleFreeze(ToggleFreeze(heap[a])) = heap[a]]_vars

\* a rolled die that was frozen and is toggled back to unfrozen
C32_Witness ==
    /\ ret.op = "Die.toggle_freeze" /\ ~ret.self.is_frozen
    /\ ret.self.rolled >= 1

OnContainer(name, r) ==
    IF name \in DiceAttrs("engine") THEN r ELSE Raise(Cur, "AttributeError")

\* the call that was just made ended as r does: same error or success, same
\* pool, count, dice and history
EndedAs(r) ==
    /\ ret'.status = r.status
    /\ count' = r.d.count /\ dice' = r.d.dice
    /\ roll_history' = r.d.roll_history /\ heap' = r.d.heap

\* C34: add_dice, remove_lowest_roll, remove_highest_roll, freeze and unfreeze
\* of the manager end as the method of the same name of the container does, in
\* the same state and for some arguments the caller can pass to both.
C34_PassThrough ==
    [][/\ ret'.op = "RollManager.add_dice" =>
             \E number \in 0..MaxDice :
                EndedAs(OnContainer("add_dice", Ok(AddDice(Cur, die_type, number), 0)))
       /\ ret'.op = "RollManager.remove_lowest_roll" =>
             EndedAs(OnContainer("remove_lowest_roll", RemoveLowestRoll(Cur)))
       /\ ret'.op = "RollManager.remove_highest_roll" =>
             EndedAs(OnContainer("remove_highest_roll", RemoveHighestRoll(Cur)))
       /\ ret'.op = "RollManager.freeze" =>
             \E c \in FreezeCalls : EndedAs(OnContainer("freeze", DiceFreeze(Cur, c[1], c[2])))
       /\ ret'.op = "RollManager.unfreeze" =>
             \E c \in FreezeCalls : EndedAs(OnContainer("unfreeze", DiceUnfreeze(Cur, c[1], c[2])))]_vars

\* the values vals as Python prints a list of integers, without the brackets
RECURSIVE Listed(_)
Listed(vals) ==
    IF Len(vals) = 0 THEN ""
    ELSE Listed(SubSeq(vals, 1, Len(vals) - 1))
            \o (IF Len(vals) > 1 THEN ", " ELSE "") \o ToString(vals[Len(vals)])

\* C35: in every state str(dice) is "{count}{name}, [{v1}, {v2}, ...]" with
\* the container's count, the name of its die kind and the rolled values of
\* the current roll in order.
C35_Rendering ==
    ret.op = "__str__" =>
        /\ ret.status = "ok"
        /\ ret.value = ToString(count) \o "d" \o ToString(FaceCountOf(die_type)) \o ", ["
                          \o Listed(SnapshotValues(Len(roll_history))) \o "]"

\* the Die objects of a list
RefsIn(ds) == {ds[i] : i \in 1..Len(ds)}

\* C36: roll() changes no die's is_frozen or face_count; the freeze and
\* unfreeze calls change no die's rolled, nor the pool's members and order, nor
\* count; add_dice and the remove calls change neither rolled nor is_frozen
\* of the dice that stay in the pool.
C36_FrameRules ==
    [][/\ ret'.op = "roll" =>
             \A a \in RefsIn(dice) :
                /\ heap'[a].is_frozen = heap[a].is_frozen
                /\ heap'[a].face_count = heap[a].face_count
       /\ ret'.op \in {"freeze_die", "unfreeze_die", "freeze_dice", "unfreeze_dice",
                       "freeze_all_dice", "unfreeze_all_dice"} =>
             /\ dice' = dice /\ count' = count
             /\ \A a \in RefsIn(dice) : heap'[a].rolled = heap[a].rolled
       /\ ret'.op \in {"add_dice", "remove_lowest_roll", "remove_highest_roll"} =>
             \A a \in RefsIn(dice) \cap RefsIn(dice') :
                /\ heap'[a].rolled = heap[a].rolled
                /\ heap'[a].is_frozen = heap[a].is_frozen]_vars

\* a removal that leaves a rolled, frozen die in the pool
C36_Witness ==
    /\ ret.op \in {"remove_lowest_roll", "remove_highest_roll"} /\ ret.status = "ok"
    /\ Len(dice) = 1
    /\ heap[dice[1]].is_frozen /\ heap[dice[1]].rolled >= 1

\* C37: freeze and unfreeze, of the container or of the manager, change
\* is_frozen of dice of the live pool only: a Die that is no member of the pool
\* keeps its flag, whether it is passed alone or in a list.
C37_OnlyPoolDice ==
    [][ret'.op \in {"freeze", "unfreeze", "RollManager.freeze", "RollManager.unfreeze"} =>
          \A a \in (1..Len(heap)) \ RefsIn(dice) :
             heap'[a].is_frozen = heap[a].is_frozen]_vars

====
